---- MODULE Spec2Model ----
(***************************************************************************)
(* Star creation with credit accounting.                                   *)
(*                                                                         *)
(* Two implementations of "create a star" are modelled:                    *)
(*   - the stored procedure create_star_with_credit_check (one READ        *)
(*     COMMITTED transaction, one statement per step);                     *)
(*   - the client flow CreateStarModal.handleSubmit followed by            *)
(*     App.handleCreateStar (one autocommit request per await).            *)
(* Each process is one database session / browser client, one attempt.     *)
(* The client never calls the stored procedure, so the processes of a run  *)
(* all use the same one of the two paths.                                  *)
(***************************************************************************)
EXTENDS Integers, FiniteSets, Sequences, TLC

\* ---------------------------------------------------------------- bounds
NumProcs == 2
MaxCredits == 2
MaxRetries == 3
MaxTicks == 2
MaxRetryCount == 6
MaxInflight == 2

\* ------------------------------------------------------- program constants
maxAttempts == 100

Procs == 1..NumProcs
Users == {"alice", "bob"}
Names == {"Nova", "Vega"}

\* Request payloads: the fields of a record all differ from one another and
\* between the two records, so that a column mix-up is visible.
Payloads ==
  { [message |-> "hello", x |-> 10, y |-> 30, size |-> 1, brightness |-> 5,
     sky_type |-> "general"],
    [message |-> "world", x |-> 60, y |-> 70, size |-> 2, brightness |-> 9,
     sky_type |-> "personal"] }

\* The payload a caller sends along with a name.
RequestPayload(name) ==
  CHOOSE pl \in Payloads : (pl.message = "hello") <=> (name = "Nova")

NoPayload ==
  [message |-> "", x |-> 0, y |-> 0, size |-> 0, brightness |-> 0, sky_type |-> ""]

NoWrite == << >>  \* "this transaction holds no uncommitted user_credits row"
NoStar == 0       \* v_star_id before RETURNING id INTO v_star_id (NULL)

\* ----------------------------------------------------------------- state
VARIABLES
  stars,          \* committed rows of table stars
  user_credits,   \* committed rows of table user_credits: user_id -> star_credits
  profiles,       \* profiles.is_super_admin, by user id
  nextId,         \* source of fresh stars.id values
  pc,             \* position of each process in its handler
  p_user_id,      \* p_user_id / user.id of the attempt
  p_star_name,    \* p_star_name / starName.trim()
  p_is_super_admin, \* p_is_super_admin / CreateStarModal.isSuperAdmin
  payload,        \* message, x, y, size, brightness, sky_type of the request
  v_credits,      \* v_credits
  credits,        \* CreateStarModal.credits
  existing,       \* deductStarCredit: existing.star_credits
  pend,           \* uncommitted star_credits value written by the transaction
  v_star_id,      \* v_star_id
  result,         \* returned json / error shown by the client
  hist,           \* bookkeeping about the attempt of each process
  path,           \* the creation path the processes of this run use
  profile_rows,   \* rows of table profiles: id -> is_admin, is_super_admin
  toggle,         \* the last call of a toggle function and what it returned
  h_pc,           \* position in App.handleCreateStar
  h_isConnected,  \* App state isConnected
  h_user,         \* App state user (its id, or null)
  innerWidth,     \* window.innerWidth
  localStars,     \* App state stars: the coordinates of the stars last fetched
  h_attempts,     \* handleCreateStar: attempts
  h_x,            \* handleCreateStar: x
  h_y,            \* handleCreateStar: y
  sawAcceptable,  \* some sampled candidate passed the filter
  error,          \* App state error
  isModalOpen,    \* App state isModalOpen
  isAuthModalOpen, \* App state isAuthModalOpen
  thrown,         \* the Error handleCreateStar threw
  credits0,       \* user_credits of the initial state
  k_fn,           \* the connection helper each caller runs
  k_pc,           \* position of each caller in the helper
  k_retries,      \* parameter retries
  k_attempt,      \* loop variable attempt
  k_checks,       \* session checks / HEAD requests made by the call
  k_failed,       \* how many of them failed
  k_waits,        \* the setTimeout delays the call has waited, in order
  k_result,       \* the value the call resolved to
  connectionCache, \* module variable connectionCache
  clock,          \* what Date.now() returns
  k_now,          \* checkSupabaseConnectionCached: const now
  cleared,        \* clearConnectionCache ran and no cached call began since
  d_pc,           \* the retry delay is about to be computed / has been computed
  d_retryCount,   \* retryCountRef.current the delay is computed for
  d_jitter,       \* Math.random() * 1000
  d_delay,        \* const delay
  retryCount,     \* MusicPlayer: retryCountRef.current
  retryTimeout,   \* MusicPlayer: the pending timer of retryTimeoutRef.current
  fetchError,     \* MusicPlayer state fetchError
  playlist,       \* MusicPlayer state playlist
  inflight,       \* fetchPlaylist calls awaiting the select
  heads,          \* fetchPlaylist calls awaiting the HEAD requests of the tracks
  m_event,        \* what the last step of the MusicPlayer was
  purchases,      \* rows of table purchases: id -> user_id, quantity, status
  s_pc,           \* position of each buyer in createOrder / onApprove
  s_purchaseId,   \* const purchaseId
  s_error,        \* ShopModal state error
  s_success       \* ShopModal state success

vars == << stars, user_credits, profiles, nextId, pc, p_user_id,
           p_star_name, p_is_super_admin, payload, v_credits, credits,
           existing, pend, v_star_id, result, hist, path, credits0,
           profile_rows, toggle, h_pc, h_isConnected, h_user, innerWidth,
           localStars, h_attempts, h_x, h_y, sawAcceptable, error, isModalOpen,
           isAuthModalOpen, thrown, k_fn, k_pc, k_retries, k_attempt,
           k_checks, k_failed, k_waits, k_result, connectionCache, clock,
           k_now, cleared, d_pc, d_retryCount, d_jitter, d_delay, retryCount,
           retryTimeout, fetchError, playlist, inflight, heads, m_event,
           purchases, s_pc, s_purchaseId, s_error, s_success >>

\* ---------------------------------------------------------------- results
\* json returned by create_star_with_credit_check
R_Success == "success"
R_NameExists == "Star name already exists"
R_Insufficient == "Insufficient credits"
R_DupStar == "SQLERRM: duplicate key value violates unique constraint on stars.star_name"
R_DupCredits == "SQLERRM: duplicate key value violates unique constraint user_credits_pkey"
R_CheckCredits == "SQLERRM: new row for relation user_credits violates check constraint"
\* errors set by CreateStarModal.handleSubmit / thrown by App.handleCreateStar
E_NeedCredits == "You need star credits to create a star. Purchase credits in the shop."
E_NameTaken == "This star name has already been taken. Please choose a different name."
E_DeductFailed == "Failed to deduct credit. Please try again."
E_Connection == "Database connection error"
E_Auth == "Authentication required"
E_Crowded == "Unable to find a suitable location for the star. The sky might be too crowded."
E_CreateFailed == "Failed to create star"
NoResult == ""

\* The tagged outcome of the external interface that a result stands for.
Outcome(r) ==
  CASE r = R_Success -> "success"
    [] r \in {R_NameExists, E_NameTaken} -> "name_conflict"
    [] r \in {R_Insufficient, E_NeedCredits, E_DeductFailed} -> "insufficient_credits"
    [] r = NoResult -> "none"
    [] OTHER -> "failure"

\* ---------------------------------------------------------------- helpers
HasRow(u) == u \in DOMAIN user_credits

\* SELECT 1 FROM stars WHERE star_name = name
NameExists(name) == \E s \in stars : s.star_name = name

\* The uniqueness constraint on stars.star_name that makes the later of two
\* racing inserts fail.
StarNameUniqueViolation(name) == \E s \in stars : s.star_name = name

\* A column without the constraint.
CheckStarCredits_off(c) == TRUE

\* CHECK (star_credits >= 0)
CheckStarCredits(c) == c >= 0

\* A decrement that takes nothing.
DeductCredit_noop(c) == c

\* SET star_credits = star_credits - 1
DeductCredit(c) == c - 1

\* A threshold that lets a balance of 0 through.
HasEnoughCredits_zeroPasses(c) == ~(c < 0)

\* IF v_credits < 1 THEN RETURN 'Insufficient credits'
HasEnoughCredits(c) == ~(c < 1)

\* An exemption flag that is ignored.
SkipsCreditCheck_never(sa) == FALSE

\* IF NOT p_is_super_admin THEN ... / if (!isSuperAdmin) { ... }
SkipsCreditCheck(sa) == sa

\* The row lock on a user_credits row is held by the transaction that has an
\* uncommitted write to it.
RowLockedByOther(p, u) ==
  \E q \in Procs \ {p} : pend[q] # NoWrite /\ p_user_id[q] = u

SetRow(tbl, u, c) ==
  [w \in DOMAIN tbl \cup {u} |-> IF w = u THEN c ELSE tbl[w]]

\* user_credits after the transaction of p committed.
CommitCredits(p) ==
  IF pend[p] = NoWrite THEN user_credits
  ELSE SetRow(user_credits, p_user_id[p], pend[p][1])

\* A failure to undo the block's writes when the handler runs.
RollbackCredits_keepsWrites(p) == CommitCredits(p)

\* user_credits after EXCEPTION WHEN OTHERS caught an error: every change
\* made inside the block is undone.
RollbackCredits(p) == user_credits

NewHist ==
  [ callCredits |-> << >>,   \* user_credits when the attempt started
    callStars |-> 0,         \* number of stars when the attempt started
    nameFree |-> FALSE,      \* the name was unused when the attempt started
    dirty |-> FALSE,         \* another process committed a write since it started
    deducted |-> FALSE,      \* the attempt committed a credit decrement
    lostOnName |-> FALSE,    \* the attempt was stopped because the name is taken
    creditRead |-> FALSE,    \* the attempt read a user_credits row
    creditWrite |-> FALSE,   \* the attempt committed a user_credits write
    star |-> NoStar,         \* id of the star the attempt inserted
    flow |-> "none" ]

StartHist(flow, name) ==
  [ NewHist EXCEPT !.callCredits = user_credits,
                   !.callStars = Cardinality(stars),
                   !.nameFree = ~NameExists(name),
                   !.flow = flow ]

\* hist after process p committed a write: the database is no longer what
\* the attempt of any other process alone made of it.
Touch(h, p) ==
  [q \in Procs |-> IF q # p /\ h[q].flow # "none"
                   THEN [h[q] EXCEPT !.dirty = TRUE]
                   ELSE h[q]]

\* A row whose coordinates are stored in each other's column.
StarRow_swapsXY(id, name, pl, owner) ==
  [ id |-> id, star_name |-> name, message |-> pl.message, x |-> pl.y,
    y |-> pl.x, size |-> pl.size, brightness |-> pl.brightness,
    profile_id |-> owner, sky_type |-> pl.sky_type ]

\* INSERT INTO stars (star_name, message, x, y, size, brightness, profile_id,
\* sky_type) VALUES (...)
StarRow(id, name, pl, owner) ==
  [ id |-> id, star_name |-> name, message |-> pl.message, x |-> pl.x,
    y |-> pl.y, size |-> pl.size, brightness |-> pl.brightness,
    profile_id |-> owner, sky_type |-> pl.sky_type ]

dbVars == << stars, user_credits, nextId >>
argVars == << p_user_id, p_star_name, p_is_super_admin, payload >>
rpcLocals == << v_credits, pend, v_star_id >>
clientLocals == << credits, existing >>
adminVars == << profile_rows, toggle >>
placeVars == << h_pc, h_isConnected, h_user, innerWidth, localStars,
               h_attempts, h_x, h_y, sawAcceptable, error, isModalOpen, isAuthModalOpen, thrown >>
retryVars == << k_fn, k_pc, k_retries, k_attempt, k_checks, k_failed, k_waits,
               k_result >>
cacheVars == << connectionCache, clock, k_now, cleared >>
connVars == << retryVars, cacheVars >>
delayVars == << d_pc, d_retryCount, d_jitter, d_delay >>
musicVars == << retryCount, retryTimeout, fetchError, playlist, inflight, heads,
               m_event >>
shopVars == << purchases, s_pc, s_purchaseId, s_error, s_success >>
frontVars == << connVars, delayVars, musicVars, shopVars >>
fixedVars == << profiles, credits0, path, adminVars, placeVars, frontVars >>

\* ------------------------------------------------------------------- Init
\* alice starts with any balance or without a row; bob, the super admin,
\* starts without a row or with one credit.
InitialCredits ==
  { f \in UNION { [S -> 0..MaxCredits] : S \in SUBSET Users } :
      "bob" \in DOMAIN f => f["bob"] = 1 }

\* Processes are interchangeable; they are numbered in the order in which
\* they begin their one attempt.
CanStart(p) ==
  /\ pc[p] = "idle"
  /\ \A q \in Procs : q < p => pc[q] # "idle"

\* Names are interchangeable while no star exists; the first attempt that
\* names a star uses the first name.
NameChoices ==
  IF \E q \in Procs : hist[q].flow # "none" THEN Names ELSE {"Nova"}

\* a profiles row as far as the toggle functions read and write it
ProfileFlags == [is_admin : BOOLEAN, is_super_admin : BOOLEAN]

\* SQL booleans: true, false and NULL
SqlTrue == "t"
SqlFalse == "f"
SqlNull == "NULL"
NoToggle == << >>

\* results of a toggle call: RAISE EXCEPTION, RETURN FOUND
T_Raised == "raised"
T_Found == "true"
T_NotFound == "false"

\* The star creation paths read profiles.is_super_admin only; no toggle
\* function runs while they run.
AdminIdle ==
  /\ profile_rows = [u \in Users |-> [is_admin |-> profiles[u],
                                       is_super_admin |-> profiles[u]]]
  /\ toggle = NoToggle

\* ------------------------------------------------ App.handleCreateStar
\* values of the App state and of the locals of handleCreateStar
NoError == "null"
ErrConnect == "Unable to connect to the database. Please try again later."
ErrSignIn == "Please sign in to create stars"
ErrCreate == "Failed to create star. Please try again."
NoThrow == ""
NoUser == "null"
NoCoord == -1     \* let x, y before the first sample (undefined)

\* While the other specifications run, handleCreateStar is not looked into.
PlaceIdle ==
  /\ h_pc = "off"
  /\ h_isConnected = TRUE
  /\ h_user = NoUser
  /\ innerWidth = 0
  /\ localStars = {}
  /\ h_attempts = 0
  /\ h_x = NoCoord
  /\ h_y = NoCoord
  /\ sawAcceptable = FALSE
  /\ error = NoError
  /\ isModalOpen = FALSE
  /\ isAuthModalOpen = FALSE
  /\ thrown = NoThrow

\* ------------------------------------------------- lib/supabase helpers
NoFn == "none"
NoValue == << >>    \* the promise of the call has not resolved

Unused == "unused"   \* a variable of a part of the front end that is at rest

\* The callers of the connection helpers do not exist.
RetryIdle ==
  /\ k_fn = Unused
  /\ k_pc = Unused
  /\ k_retries = Unused
  /\ k_attempt = Unused
  /\ k_checks = Unused
  /\ k_failed = Unused
  /\ k_waits = Unused
  /\ k_result = Unused

\* No caller has called a connection helper.
RetryStart ==
  /\ k_fn = [p \in Procs |-> NoFn]
  /\ k_pc = [p \in Procs |-> "off"]
  /\ k_retries = [p \in Procs |-> 0]
  /\ k_attempt = [p \in Procs |-> 0]
  /\ k_checks = [p \in Procs |-> 0]
  /\ k_failed = [p \in Procs |-> 0]
  /\ k_waits = [p \in Procs |-> << >>]
  /\ k_result = [p \in Procs |-> NoValue]

NoCache == << >>    \* connectionCache = null

CacheIdle ==
  /\ connectionCache = NoCache
  /\ clock = 0
  /\ k_now = Unused
  /\ cleared = FALSE

\* let connectionCache = null
CacheStart ==
  /\ connectionCache = NoCache
  /\ clock = 0
  /\ k_now = [p \in Procs |-> 0]
  /\ cleared = FALSE

\* The connection helpers are not called.
ConnIdle == RetryIdle /\ CacheIdle

\* ------------------------------------------------------------ MusicPlayer
NoTimer == -1       \* retryTimeoutRef.current holds no pending timer
NoFetchError == "null"
E_NoEvent == "none"

\* No retry delay is being computed.
DelayIdle ==
  /\ d_pc = "off"
  /\ d_retryCount = 0
  /\ d_jitter = 0
  /\ d_delay = 0

\* No MusicPlayer is mounted.
MusicIdle ==
  /\ retryCount = 0
  /\ retryTimeout = NoTimer
  /\ fetchError = NoFetchError
  /\ playlist = "unset"
  /\ inflight = 0
  /\ heads = 0
  /\ m_event = E_NoEvent

\* -------------------------------------------------------------- ShopModal
NoPurchase == 0     \* const purchaseId before createPurchaseRecord returned
NoText == "null"

\* No purchase has been started.
ShopIdle ==
  /\ purchases = << >>
  /\ s_pc = Unused
  /\ s_purchaseId = Unused
  /\ s_error = Unused
  /\ s_success = Unused

\* While the star creation, role and placement specifications run, the rest of
\* the front end is not looked into.
FrontIdle == ConnIdle /\ DelayIdle /\ MusicIdle /\ ShopIdle

\* who runs in a run: sessions calling the stored procedure, browser clients,
\* or both kinds together with purchases
Paths == {"rpc", "client", "mixed"}

InitCreate ==
  /\ stars = {}
  /\ user_credits \in InitialCredits
  /\ credits0 = user_credits
  /\ path \in Paths
  /\ profiles = [u \in Users |-> u = "bob"]
  /\ nextId = 1
  /\ pc = [p \in Procs |-> "idle"]
  /\ p_user_id = [p \in Procs |-> "alice"]
  /\ p_star_name = [p \in Procs |-> "Nova"]
  /\ p_is_super_admin = [p \in Procs |-> FALSE]
  /\ payload = [p \in Procs |-> NoPayload]
  /\ v_credits = [p \in Procs |-> 0]
  /\ credits = [p \in Procs |-> 0]
  /\ existing = [p \in Procs |-> 0]
  /\ pend = [p \in Procs |-> NoWrite]
  /\ v_star_id = [p \in Procs |-> NoStar]
  /\ result = [p \in Procs |-> NoResult]
  /\ hist = [p \in Procs |-> NewHist]

Init ==
  InitCreate /\ path \in {"rpc", "client"} /\ AdminIdle /\ PlaceIdle /\ FrontIdle

createVars == << dbVars, argVars, rpcLocals, clientLocals, pc, result, hist,
                 profiles, credits0, path, placeVars, frontVars >>

\* everything the star creation, role and placement specifications work on
starVars == << dbVars, argVars, rpcLocals, clientLocals, pc, result, hist,
               profiles, credits0, path, placeVars, adminVars >>

\* what the steps of one part of the front end leave alone
notConn == << starVars, delayVars, musicVars, shopVars >>
notDelay == << starVars, connVars, musicVars, shopVars >>
notMusic == << starVars, connVars, delayVars, shopVars >>
notShop == << starVars, connVars, delayVars, musicVars >>

\* The star creation, role and placement parts are at rest.
StarIdle ==
  /\ InitCreate
  /\ user_credits = << >>
  /\ path = "rpc"
  /\ AdminIdle
  /\ PlaceIdle

\* ------------------------------------------ create_star_with_credit_check
\* What a caller sees when an exception leaves the function.
Raised == "exception propagated to the caller"

\* A function without the handler: the error reaches the caller.
WhenOthers_reraises(sqlerrm) == Raised

\* EXCEPTION WHEN OTHERS THEN RETURN json_build_object('success', false,
\* 'error', SQLERRM)
WhenOthers(sqlerrm) == sqlerrm

\* A session calls the function (nothing in it ties p_user_id or
\* p_is_super_admin to the caller) and its first statement runs:
\* IF EXISTS (SELECT 1 FROM stars WHERE star_name = p_star_name) THEN RETURN
Call(p, u, name, sa) ==
  /\ path \in {"rpc", "mixed"}
  /\ CanStart(p)
  /\ p_user_id' = [p_user_id EXCEPT ![p] = u]
  /\ p_star_name' = [p_star_name EXCEPT ![p] = name]
  /\ p_is_super_admin' = [p_is_super_admin EXCEPT ![p] = sa]
  /\ payload' = [payload EXCEPT ![p] = RequestPayload(name)]
  /\ IF NameExists(name)
     THEN /\ result' = [result EXCEPT ![p] = R_NameExists]
          /\ pc' = [pc EXCEPT ![p] = "done"]
          /\ hist' = [hist EXCEPT ![p] =
                        [StartHist("rpc", name) EXCEPT !.lostOnName = TRUE]]
     ELSE /\ pc' = [pc EXCEPT ![p] =
                      IF SkipsCreditCheck(sa) THEN "insert_star"
                      ELSE "select_credits"]
          /\ hist' = [hist EXCEPT ![p] = StartHist("rpc", name)]
          /\ UNCHANGED result
  /\ UNCHANGED << dbVars, fixedVars, rpcLocals, clientLocals >>

\* SELECT star_credits INTO v_credits FROM user_credits WHERE user_id = p_user_id
\* and, when a row is FOUND, IF v_credits < 1 THEN RETURN 'Insufficient credits'
RpcSelectCredits(p) ==
  /\ pc[p] = "select_credits"
  /\ hist' = [hist EXCEPT ![p].creditRead = TRUE]
  /\ IF HasRow(p_user_id[p])
     THEN LET c == user_credits[p_user_id[p]]
          IN /\ v_credits' = [v_credits EXCEPT ![p] = c]
             /\ IF HasEnoughCredits(c)
                THEN /\ pc' = [pc EXCEPT ![p] = "update_credits"]
                     /\ UNCHANGED result
                ELSE /\ pc' = [pc EXCEPT ![p] = "done"]
                     /\ result' = [result EXCEPT ![p] = R_Insufficient]
     ELSE /\ pc' = [pc EXCEPT ![p] = "insert_credits"]
          /\ UNCHANGED << v_credits, result >>
  /\ UNCHANGED << dbVars, fixedVars, argVars, pend, v_star_id, clientLocals >>

\* IF NOT FOUND THEN INSERT INTO user_credits VALUES (p_user_id, 0);
\* v_credits := 0; and the check that follows. The insert waits for an
\* uncommitted write of the same key and fails on the primary key when the
\* row has been committed meanwhile.
RpcInsertCredits(p) ==
  /\ pc[p] = "insert_credits"
  /\ ~RowLockedByOther(p, p_user_id[p])
  /\ IF HasRow(p_user_id[p])
     THEN /\ result' = [result EXCEPT ![p] = WhenOthers(R_DupCredits)]
          /\ pc' = [pc EXCEPT ![p] = "done"]
          /\ user_credits' = RollbackCredits(p)
          /\ UNCHANGED << pend, v_credits, hist >>
     ELSE /\ v_credits' = [v_credits EXCEPT ![p] = 0]
          /\ IF HasEnoughCredits(0)
             THEN \* the row stays uncommitted while the function goes on
                  /\ pend' = [pend EXCEPT ![p] = << 0 >>]
                  /\ pc' = [pc EXCEPT ![p] = "update_credits"]
                  /\ UNCHANGED << result, user_credits, hist >>
             ELSE \* RETURN 'Insufficient credits': the new row is committed
                  /\ result' = [result EXCEPT ![p] = R_Insufficient]
                  /\ pc' = [pc EXCEPT ![p] = "done"]
                  /\ user_credits' = SetRow(user_credits, p_user_id[p], 0)
                  /\ hist' = Touch([hist EXCEPT ![p].creditWrite = TRUE], p)
                  /\ UNCHANGED pend
  /\ UNCHANGED << stars, nextId, fixedVars, argVars, v_star_id, clientLocals >>

\* UPDATE user_credits SET star_credits = star_credits - 1 WHERE user_id = p_user_id
\* The update waits for the row lock and then applies to the latest
\* committed version of the row; the CHECK constraint rejects a negative value.
RpcUpdateCredits(p) ==
  /\ pc[p] = "update_credits"
  /\ ~RowLockedByOther(p, p_user_id[p])
  /\ LET cur == IF pend[p] # NoWrite THEN pend[p][1]
                ELSE user_credits[p_user_id[p]]
     IN IF CheckStarCredits(DeductCredit(cur))
        THEN /\ pend' = [pend EXCEPT ![p] = << DeductCredit(cur) >>]
             /\ pc' = [pc EXCEPT ![p] = "insert_star"]
             /\ UNCHANGED << result, user_credits, hist >>
        ELSE /\ result' = [result EXCEPT ![p] = WhenOthers(R_CheckCredits)]
             /\ pc' = [pc EXCEPT ![p] = "done"]
             /\ user_credits' = RollbackCredits(p)
             /\ pend' = [pend EXCEPT ![p] = NoWrite]
             /\ hist' = IF user_credits' = user_credits THEN hist
                        ELSE Touch([hist EXCEPT ![p].creditWrite = TRUE], p)
  /\ UNCHANGED << stars, nextId, fixedVars, argVars, v_credits, v_star_id,
                  clientLocals >>

\* INSERT INTO stars (...) VALUES (...) RETURNING id INTO v_star_id;
\* RETURN success, and the transaction commits; or the insert raises and
\* EXCEPTION WHEN OTHERS returns SQLERRM after undoing the block.
RpcInsertStar(p) ==
  /\ pc[p] = "insert_star"
  /\ pc' = [pc EXCEPT ![p] = "done"]
  /\ pend' = [pend EXCEPT ![p] = NoWrite]
  /\ IF StarNameUniqueViolation(p_star_name[p])
     THEN /\ result' = [result EXCEPT ![p] = WhenOthers(R_DupStar)]
          /\ user_credits' = RollbackCredits(p)
          /\ hist' = IF user_credits' = user_credits
                     THEN [hist EXCEPT ![p].lostOnName = TRUE]
                     ELSE Touch([hist EXCEPT ![p].lostOnName = TRUE,
                                             ![p].deducted = TRUE,
                                             ![p].creditWrite = TRUE], p)
          /\ UNCHANGED << stars, nextId, v_star_id >>
     ELSE /\ stars' = stars \cup
                 {StarRow(nextId, p_star_name[p], payload[p], p_user_id[p])}
          /\ nextId' = nextId + 1
          /\ v_star_id' = [v_star_id EXCEPT ![p] = nextId]
          /\ result' = [result EXCEPT ![p] = R_Success]
          /\ user_credits' = CommitCredits(p)
          /\ hist' = Touch([hist EXCEPT ![p].star = nextId,
                                        ![p].deducted = (pend[p] # NoWrite),
                                        ![p].creditWrite = (pend[p] # NoWrite)], p)
  /\ UNCHANGED << fixedVars, argVars, v_credits, clientLocals >>

Rpc(p) ==
  \/ \E u \in Users, name \in NameChoices, sa \in BOOLEAN : Call(p, u, name, sa)
  \/ RpcSelectCredits(p)
  \/ RpcInsertCredits(p)
  \/ RpcUpdateCredits(p)
  \/ RpcInsertStar(p)

\* ------------------------------- CreateStarModal + App.handleCreateStar
\* getUserCredits: data?.star_credits || 0
getUserCredits(u) == IF HasRow(u) THEN user_credits[u] ELSE 0

\* The modal opens for a signed-in user: fetchCredits() and checkSuperAdmin()
\* fill the component state.
OpenModal(p, u) ==
  /\ path \in {"client", "mixed"}
  /\ CanStart(p)
  /\ pc' = [pc EXCEPT ![p] = "modal"]
  /\ p_user_id' = [p_user_id EXCEPT ![p] = u]
  /\ credits' = [credits EXCEPT ![p] = getUserCredits(u)]
  /\ p_is_super_admin' = [p_is_super_admin EXCEPT ![p] = profiles[u]]
  /\ UNCHANGED << dbVars, fixedVars, p_star_name, payload, rpcLocals,
                  existing, result, hist >>

\* handleSubmit: the checks on the component state, then
\* const nameExists = await checkStarNameExists(starName.trim())
Submit(p, name) ==
  /\ pc[p] = "modal"
  /\ p_star_name' = [p_star_name EXCEPT ![p] = name]
  /\ payload' = [payload EXCEPT ![p] = RequestPayload(name)]
  /\ IF ~p_is_super_admin[p] /\ credits[p] < 1
       THEN /\ result' = [result EXCEPT ![p] = E_NeedCredits]
            /\ pc' = [pc EXCEPT ![p] = "done"]
            /\ hist' = [hist EXCEPT ![p] = StartHist("client", name)]
     ELSE IF NameExists(name)
       THEN /\ result' = [result EXCEPT ![p] = E_NameTaken]
            /\ pc' = [pc EXCEPT ![p] = "done"]
            /\ hist' = [hist EXCEPT ![p] =
                          [StartHist("client", name) EXCEPT !.lostOnName = TRUE]]
     ELSE /\ pc' = [pc EXCEPT ![p] =
                      IF SkipsCreditCheck(p_is_super_admin[p]) THEN "c_create"
                      ELSE "c_deduct_read"]
          /\ hist' = [hist EXCEPT ![p] = StartHist("client", name)]
          /\ UNCHANGED result
  /\ UNCHANGED << dbVars, fixedVars, p_user_id, p_is_super_admin, rpcLocals,
                  clientLocals >>

\* deductStarCredit: select star_credits; return false when there is no row
\* or star_credits < 1.
DeductRead(p) ==
  /\ pc[p] = "c_deduct_read"
  /\ hist' = [hist EXCEPT ![p].creditRead = TRUE]
  /\ IF ~HasRow(p_user_id[p]) \/ user_credits[p_user_id[p]] < 1
     THEN /\ result' = [result EXCEPT ![p] = E_DeductFailed]
          /\ pc' = [pc EXCEPT ![p] = "done"]
          /\ UNCHANGED existing
     ELSE /\ existing' = [existing EXCEPT ![p] = user_credits[p_user_id[p]]]
          /\ pc' = [pc EXCEPT ![p] = "c_deduct_write"]
          /\ UNCHANGED result
  /\ UNCHANGED << dbVars, fixedVars, argVars, rpcLocals, credits >>

\* deductStarCredit: update({ star_credits: existing.star_credits - 1 }),
\* an absolute value computed from the earlier read.
DeductWrite(p) ==
  /\ pc[p] = "c_deduct_write"
  /\ ~RowLockedByOther(p, p_user_id[p])
  /\ CheckStarCredits(existing[p] - 1)
  /\ user_credits' = SetRow(user_credits, p_user_id[p], existing[p] - 1)
  /\ hist' = Touch([hist EXCEPT ![p].deducted = TRUE,
                                ![p].creditWrite = TRUE], p)
  /\ pc' = [pc EXCEPT ![p] = "c_create"]
  /\ UNCHANGED << stars, nextId, fixedVars, argVars, rpcLocals, clientLocals,
                  result >>

\* The placement loop of handleCreateStar. firstOk is the index of the first
\* acceptable sample among the samples the random source would give (0: none
\* of the first maxAttempts samples is acceptable); the loop leaves with
\* attempts = that index, or maxAttempts.
FirstOkInputs == {0, 1, maxAttempts - 1, maxAttempts}
PlacementAttempts(firstOk) == IF firstOk = 0 THEN maxAttempts ELSE firstOk
PlacementThrows(attempts) == attempts >= maxAttempts

\* The inputs of handleCreateStar: isConnected, whether user is set, firstOk.
\* An input that a failed guard never looks at is given one value only.
CreateInputs ==
  { << FALSE, FALSE, 0 >>, << TRUE, FALSE, 0 >> }
    \cup { << TRUE, TRUE, k >> : k \in FirstOkInputs }

\* onSubmit = App.handleCreateStar: the guards, the placement loop and the
\* insert into stars.
HandleCreateStar(p, isConnected, user, firstOk) ==
  /\ pc[p] = "c_create"
  /\ IF ~isConnected
       THEN /\ result' = [result EXCEPT ![p] = E_Connection]
            /\ pc' = [pc EXCEPT ![p] = "done"]
            /\ UNCHANGED << stars, nextId, hist >>
     ELSE IF ~user
       THEN /\ result' = [result EXCEPT ![p] = E_Auth]
            /\ pc' = [pc EXCEPT ![p] = "done"]
            /\ UNCHANGED << stars, nextId, hist >>
     ELSE IF PlacementThrows(PlacementAttempts(firstOk))
       THEN /\ result' = [result EXCEPT ![p] = E_Crowded]
            /\ pc' = [pc EXCEPT ![p] = "done"]
            /\ UNCHANGED << stars, nextId, hist >>
     ELSE IF StarNameUniqueViolation(p_star_name[p])
       THEN /\ result' = [result EXCEPT ![p] = E_CreateFailed]
            /\ pc' = [pc EXCEPT ![p] = "done"]
            /\ hist' = [hist EXCEPT ![p].lostOnName = TRUE]
            /\ UNCHANGED << stars, nextId >>
     ELSE /\ stars' = stars \cup
                 {StarRow(nextId, p_star_name[p], payload[p], p_user_id[p])}
          /\ nextId' = nextId + 1
          /\ result' = [result EXCEPT ![p] = R_Success]
          /\ pc' = [pc EXCEPT ![p] = "c_fetch"]
          /\ hist' = Touch([hist EXCEPT ![p].star = nextId], p)
  /\ UNCHANGED << user_credits, fixedVars, argVars, rpcLocals, clientLocals >>

\* handleSubmit after onSubmit resolved: await fetchCredits()
FetchCredits(p) ==
  /\ pc[p] = "c_fetch"
  /\ credits' = [credits EXCEPT ![p] = getUserCredits(p_user_id[p])]
  /\ hist' = [hist EXCEPT ![p].creditRead = TRUE]
  /\ pc' = [pc EXCEPT ![p] = "done"]
  /\ UNCHANGED << dbVars, fixedVars, argVars, rpcLocals, existing, result >>

Client(p) ==
  \/ \E u \in Users : OpenModal(p, u)
  \/ \E name \in NameChoices : Submit(p, name)
  \/ DeductRead(p)
  \/ DeductWrite(p)
  \/ \E in \in CreateInputs : HandleCreateStar(p, in[1], in[2], in[3])
  \/ FetchCredits(p)

Next == \E p \in Procs : Rpc(p) \/ Client(p)

Spec == Init /\ [][Next]_vars

\* Runs in which every session calls create_star_with_credit_check.
InitRpc == Init /\ path = "rpc"
NextRpc == \E p \in Procs : Rpc(p)
SpecRpc == InitRpc /\ [][NextRpc]_vars

\* ================================================================ claims
Done(p) == pc[p] = "done"
Attempted(p) == hist[p].flow # "none"
Charged(p) == Attempted(p) /\ ~p_is_super_admin[p]
Quiescent == \A p \in Procs : pc[p] \in {"idle", "modal", "done"}

\* non-exempt attempts and successes of an account, and whether all attempts
\* used distinct names that were unused when they started
AttemptsOf(u) == Cardinality({p \in Procs : Charged(p) /\ p_user_id[p] = u})
SuccessesOf(u) ==
  Cardinality({p \in Procs : Charged(p) /\ p_user_id[p] = u
                             /\ hist[p].star # NoStar})
DistinctUnusedNames ==
  /\ \A p \in Procs : Attempted(p) => hist[p].nameFree
  /\ \A p, q \in Procs :
       (Attempted(p) /\ Attempted(q) /\ p # q) => p_star_name[p] # p_star_name[q]

\* C1: no two stars share a name, and every attempt that is stopped because
\* its name is taken (by the pre-check or by the storage layer on a racing
\* insert) ends with the name-conflict outcome.
C1_NameUniqueUnderConcurrency ==
  /\ \A s, t \in stars : s.star_name = t.star_name => s = t
  /\ \A p \in Procs :
       (Done(p) /\ hist[p].lostOnName) => Outcome(result[p]) = "name_conflict"

\* C2: for a non-exempt account with balance N and at most N attempts with
\* distinct unused names, once all attempts have ended the successes are at
\* most N and successes + balance = N. (Stated for runs in which no attempt
\* is cut short after its deduction, which is the subject of C5.)
C2_CreditAccounting ==
  (Quiescent
     /\ \A p \in Procs : (Done(p) /\ hist[p].deducted) => hist[p].star # NoStar)
  => \A u \in DOMAIN credits0 :
       (DistinctUnusedNames /\ AttemptsOf(u) <= credits0[u])
       => /\ SuccessesOf(u) <= credits0[u]
          /\ SuccessesOf(u) + user_credits[u] = credits0[u]

\* C3: two attempts through create_star_with_credit_check by one non-exempt
\* account with balance 1 and two different unused names end with one
\* success, one 'Insufficient credits', one star and balance 0.
C3_BalanceOneRace ==
  \A p, q \in Procs :
    ( /\ p # q /\ Done(p) /\ Done(q)
      /\ \A r \in Procs \ {p, q} : ~Attempted(r)
      /\ hist[p].flow = "rpc" /\ hist[q].flow = "rpc"
      /\ p_user_id[p] = p_user_id[q]
      /\ ~p_is_super_admin[p] /\ ~p_is_super_admin[q]
      /\ DistinctUnusedNames
      /\ p_user_id[p] \in DOMAIN credits0
      /\ credits0[p_user_id[p]] = 1 )
    => /\ Cardinality(stars) = 1
       /\ user_credits[p_user_id[p]] = 0
       /\ { Outcome(result[p]), Outcome(result[q]) }
            = { "success", "insufficient_credits" }

\* C4: create_star_with_credit_check is all-or-nothing: a committed credit
\* decrement of a call always comes with the star row of that call, and a
\* call that ends in a storage failure has written nothing.
C4_AllOrNothing ==
  \A p \in Procs :
    hist[p].flow = "rpc" =>
      /\ hist[p].deducted =>
           /\ hist[p].star # NoStar
           /\ \E s \in stars : s.id = hist[p].star
      /\ (Done(p) /\ Outcome(result[p]) = "failure") =>
           /\ hist[p].star = NoStar
           /\ ~hist[p].creditWrite
           /\ ~hist[p].dirty =>
                /\ user_credits = hist[p].callCredits
                /\ Cardinality(stars) = hist[p].callStars

\* a call whose star insert was rejected after its credit had been decremented
C4_Witness ==
  \E p \in Procs :
    /\ Done(p) /\ hist[p].flow = "rpc" /\ result[p] = R_DupStar
    /\ ~p_is_super_admin[p] /\ v_credits[p] >= 1

\* C5: a client attempt that ends without inserting a star has not deducted
\* a credit.
C5_ClientNoChargeWithoutStar ==
  \A p \in Procs :
    (hist[p].flow = "client" /\ Done(p) /\ hist[p].star = NoStar)
    => ~hist[p].deducted

\* C6 as stated: an exempt creation succeeds for an unused name (the client
\* flow unless handleCreateStar aborts on one of its guards) and no
\* user_credits row is read, inserted or updated by it.
C6_ExemptNeverTouchesCredits ==
  \A p \in Procs :
    (Attempted(p) /\ p_is_super_admin[p]) =>
      /\ ~hist[p].creditRead
      /\ ~hist[p].creditWrite
      /\ (Done(p) /\ ~hist[p].dirty) => user_credits = hist[p].callCredits
      /\ (Done(p) /\ ~hist[p].dirty /\ hist[p].nameFree) =>
           \/ result[p] = R_Success
           \/ /\ hist[p].flow = "client"
              /\ result[p] \in {E_Connection, E_Auth, E_Crowded}

\* C6 amended: an exempt creation never inserts or updates a user_credits
\* row (an absent row stays absent); the stored procedure does not read
\* user_credits and succeeds for an unused name; the client flow succeeds for
\* an unused name unless handleCreateStar aborts on its connection, sign-in
\* or placement guard, and reads the balance only after it inserted the star.
C6_ExemptNeverWritesCredits ==
  \A p \in Procs :
    (Attempted(p) /\ p_is_super_admin[p]) =>
      /\ ~hist[p].creditWrite
      /\ ~hist[p].deducted
      /\ hist[p].flow = "rpc" => ~hist[p].creditRead
      /\ hist[p].creditRead => hist[p].star # NoStar
      /\ (Done(p) /\ ~hist[p].dirty) => user_credits = hist[p].callCredits
      /\ (Done(p) /\ ~hist[p].dirty /\ hist[p].nameFree) =>
           \/ result[p] = R_Success
           \/ /\ hist[p].flow = "client"
              /\ result[p] \in {E_Connection, E_Auth, E_Crowded}

\* an exempt creation through the client flow by an account without a
\* credit row: the star is inserted, the balance is read afterwards, and
\* there is still no row
C6_Witness ==
  \E p \in Procs :
    /\ Done(p) /\ hist[p].flow = "client" /\ p_is_super_admin[p]
    /\ result[p] = R_Success /\ hist[p].creditRead
    /\ ~HasRow(p_user_id[p]) /\ p_user_id[p] \notin DOMAIN credits0

\* C7: an attempt whose name is already taken ends with the name-conflict
\* outcome, inserts no star and neither reads nor writes user_credits.
C7_TakenNameIsConflict ==
  \A p \in Procs :
    (Done(p) /\ Attempted(p) /\ ~hist[p].nameFree) =>
      /\ Outcome(result[p]) = "name_conflict"
      /\ hist[p].star = NoStar
      /\ ~hist[p].creditRead
      /\ ~hist[p].creditWrite

C9_SuccessCostsOneCredit ==
  \A p \in Procs :
    LET u == p_user_id[p]
        before == hist[p].callCredits
    IN ( /\ Done(p) /\ hist[p].flow = "rpc" /\ ~p_is_super_admin[p]
         /\ hist[p].nameFree /\ ~hist[p].dirty
         /\ u \in DOMAIN before /\ before[u] >= 1 )
       => /\ result[p] = R_Success
          /\ user_credits[u] = before[u] - 1
          /\ DOMAIN user_credits = DOMAIN before
          /\ \A w \in DOMAIN before \ {u} : user_credits[w] = before[w]
          /\ Cardinality(stars) = hist[p].callStars + 1
          /\ hist[p].star # NoStar

\* a call that took the balance from 2 to 1
C9_Witness ==
  \E p \in Procs :
    /\ Done(p) /\ hist[p].flow = "rpc" /\ ~p_is_super_admin[p]
    /\ ~hist[p].dirty /\ result[p] = R_Success
    /\ p_user_id[p] \in DOMAIN hist[p].callCredits
    /\ hist[p].callCredits[p_user_id[p]] = 2
    /\ user_credits[p_user_id[p]] = 1

\* C10: the star_id returned with success identifies exactly one row of
\* stars, and that row carries the request's values and the requester id.
C10_RoundTrip ==
  \A p \in Procs :
    (Done(p) /\ hist[p].flow = "rpc" /\ result[p] = R_Success) =>
      /\ v_star_id[p] # NoStar
      /\ Cardinality({s \in stars : s.id = v_star_id[p]}) = 1
      /\ \A s \in stars :
           s.id = v_star_id[p] =>
             /\ s.star_name = p_star_name[p]
             /\ s.message = payload[p].message
             /\ s.x = payload[p].x
             /\ s.y = payload[p].y
             /\ s.size = payload[p].size
             /\ s.brightness = payload[p].brightness
             /\ s.sky_type = payload[p].sky_type
             /\ s.profile_id = p_user_id[p]

\* a successful call while another star already exists
C10_Witness ==
  \E p \in Procs :
    /\ Done(p) /\ hist[p].flow = "rpc" /\ result[p] = R_Success
    /\ Cardinality(stars) = 2

\* C11: a call of create_star_with_credit_check whose name was unused when it
\* started and whose star insert is rejected by the storage layer returns
\* 'Star name already exists', the result of the pre-check.
C11_RacingLoserGetsNameExists ==
  \A p \in Procs :
    (Done(p) /\ hist[p].flow = "rpc" /\ hist[p].nameFree /\ hist[p].lostOnName)
    => result[p] = R_NameExists

\* C12: for an account whose profile is not a super admin, no call of
\* create_star_with_credit_check inserts a star without the decrement of one
\* credit, and a call that passes p_is_super_admin = true ends in a failure
\* with no star and no credit write.
C12_FlagCheckedAgainstProfile ==
  \A p \in Procs :
    (hist[p].flow = "rpc" /\ ~profiles[p_user_id[p]]) =>
      /\ hist[p].star # NoStar => hist[p].deducted
      /\ (Done(p) /\ p_is_super_admin[p]) =>
           /\ Outcome(result[p]) = "failure"
           /\ hist[p].star = NoStar
           /\ ~hist[p].creditWrite

\* the json results the function builds: success with the star id, or
\* success = false with one of its error texts or the text of a storage error
SqlErrors == {R_DupStar, R_DupCredits, R_CheckCredits}
StructuredResult(p) ==
  \/ result[p] = R_Success /\ v_star_id[p] # NoStar
  \/ result[p] \in {R_NameExists, R_Insufficient} \cup SqlErrors

C17_LazyRowCreationRace ==
  \A p, q \in Procs :
    ( /\ p # q /\ Done(p) /\ Done(q)
      /\ \A r \in Procs \ {p, q} : ~Attempted(r)
      /\ hist[p].flow = "rpc" /\ hist[q].flow = "rpc"
      /\ p_user_id[p] = p_user_id[q]
      /\ ~p_is_super_admin[p] /\ ~p_is_super_admin[q]
      /\ hist[p].nameFree /\ hist[q].nameFree
      /\ p_user_id[p] \notin DOMAIN credits0 )
    => /\ HasRow(p_user_id[p])
       /\ user_credits[p_user_id[p]] = 0
       /\ stars = {}
       /\ result[p] = R_Insufficient
       /\ result[q] = R_Insufficient

\* ============================================= access to user_credits
\* auth.uid() of the sessions of SpecAccess: every session is signed in as
\* the same user, and every other user is somebody else's account.
AuthUid == "alice"

\* results of a direct request on table user_credits
D_Rows == "rows returned or written"
D_NoRows == "no rows"
D_Denied == "new row violates row-level security policy for table user_credits"
D_Constraint == "violates a constraint of user_credits"

\* "Users can view own credits" / "Users can update own credits":
\* USING (auth.uid() = user_id)
PolicyUsing(uid, row_user_id) == uid = row_user_id

\* "Users can insert own credits" / "Users can update own credits":
\* WITH CHECK (auth.uid() = user_id)
PolicyWithCheck(uid, row_user_id) == uid = row_user_id

DirectHist ==
  [ NewHist EXCEPT !.callCredits = user_credits,
                   !.callStars = Cardinality(stars),
                   !.flow = "direct" ]

\* supabase.from('user_credits').select('star_credits').eq('user_id', u)
DirectSelect(p, u) ==
  /\ CanStart(p)
  /\ pc' = [pc EXCEPT ![p] = "done"]
  /\ p_user_id' = [p_user_id EXCEPT ![p] = u]
  /\ IF HasRow(u) /\ PolicyUsing(AuthUid, u)
     THEN /\ credits' = [credits EXCEPT ![p] = user_credits[u]]
          /\ result' = [result EXCEPT ![p] = D_Rows]
          /\ hist' = [hist EXCEPT ![p] = [DirectHist EXCEPT !.creditRead = TRUE]]
     ELSE /\ result' = [result EXCEPT ![p] = D_NoRows]
          /\ hist' = [hist EXCEPT ![p] = DirectHist]
          /\ UNCHANGED credits
  /\ UNCHANGED << dbVars, fixedVars, p_star_name, p_is_super_admin, payload,
                  rpcLocals, existing >>

\* supabase.from('user_credits').insert({ user_id: u, star_credits: c })
DirectInsert(p, u, c) ==
  /\ CanStart(p)
  /\ ~RowLockedByOther(p, u)
  /\ pc' = [pc EXCEPT ![p] = "done"]
  /\ p_user_id' = [p_user_id EXCEPT ![p] = u]
  /\ IF ~PolicyWithCheck(AuthUid, u)
       THEN /\ result' = [result EXCEPT ![p] = D_Denied]
            /\ hist' = [hist EXCEPT ![p] = DirectHist]
            /\ UNCHANGED user_credits
     ELSE IF HasRow(u) \/ ~CheckStarCredits(c)
       THEN /\ result' = [result EXCEPT ![p] = D_Constraint]
            /\ hist' = [hist EXCEPT ![p] = DirectHist]
            /\ UNCHANGED user_credits
     ELSE /\ result' = [result EXCEPT ![p] = D_Rows]
          /\ user_credits' = SetRow(user_credits, u, c)
          /\ hist' = Touch([hist EXCEPT ![p] =
                              [DirectHist EXCEPT !.creditWrite = TRUE]], p)
  /\ UNCHANGED << stars, nextId, fixedVars, p_star_name, p_is_super_admin,
                  payload, rpcLocals, clientLocals >>

\* supabase.from('user_credits').update({ star_credits: c }).eq('user_id', u)
DirectUpdate(p, u, c) ==
  /\ CanStart(p)
  /\ ~RowLockedByOther(p, u)
  /\ pc' = [pc EXCEPT ![p] = "done"]
  /\ p_user_id' = [p_user_id EXCEPT ![p] = u]
  /\ IF ~(HasRow(u) /\ PolicyUsing(AuthUid, u))
       THEN /\ result' = [result EXCEPT ![p] = D_NoRows]
            /\ hist' = [hist EXCEPT ![p] = DirectHist]
            /\ UNCHANGED user_credits
     ELSE IF ~PolicyWithCheck(AuthUid, u)
       THEN /\ result' = [result EXCEPT ![p] = D_Denied]
            /\ hist' = [hist EXCEPT ![p] = DirectHist]
            /\ UNCHANGED user_credits
     ELSE IF ~CheckStarCredits(c)
       THEN /\ result' = [result EXCEPT ![p] = D_Constraint]
            /\ hist' = [hist EXCEPT ![p] = DirectHist]
            /\ UNCHANGED user_credits
     ELSE /\ result' = [result EXCEPT ![p] = D_Rows]
          /\ user_credits' = SetRow(user_credits, u, c)
          /\ hist' = Touch([hist EXCEPT ![p] =
                              [DirectHist EXCEPT !.creditWrite = TRUE]], p)
  /\ UNCHANGED << stars, nextId, fixedVars, p_star_name, p_is_super_admin,
                  payload, rpcLocals, clientLocals >>

\* values a request can ask to store, the rejected -1 included
DirectValues == -1..MaxCredits

Direct(p) ==
  \/ \E u \in Users : DirectSelect(p, u)
  \/ \E u \in Users, c \in DirectValues : DirectInsert(p, u, c)
  \/ \E u \in Users, c \in DirectValues : DirectUpdate(p, u, c)

\* One signed-in user issues direct requests and calls of
\* create_star_with_credit_check with any arguments.
NextAccess == \E p \in Procs : Rpc(p) \/ Direct(p)
SpecAccess == InitRpc /\ [][NextAccess]_vars

\* C13: whatever the signed-in user does, no other user's user_credits row
\* is created or changed, and no star is created with another user's
\* profile_id.
C13_OnlyOwnCredits ==
  /\ \A u \in Users \ {AuthUid} :
       /\ HasRow(u) <=> u \in DOMAIN credits0
       /\ HasRow(u) => user_credits[u] = credits0[u]
  /\ \A s \in stars : s.profile_id = AuthUid

\* ================================= toggle_admin_status, toggle_super_admin_status
\* Both functions are called by a signed-in user (auth.uid()) and run as one
\* statement sequence; a call is one step.
\* is_admin and is_super_admin of the profiles, for the users that have a row
InitialProfileRows == UNION { [S -> ProfileFlags] : S \in SUBSET Users }

InitAdmin ==
  /\ InitCreate
  /\ user_credits = << >>
  /\ path = "rpc"
  /\ profile_rows \in InitialProfileRows
  /\ toggle = NoToggle
  /\ PlaceIdle
  /\ FrontIdle

\* SELECT is_super_admin INTO caller_is_super_admin FROM profiles
\* WHERE id = auth.uid()  -- NULL when the caller has no profiles row
CallerIsSuperAdmin(uid) ==
  IF uid \in DOMAIN profile_rows
  THEN (IF profile_rows[uid].is_super_admin THEN SqlTrue ELSE SqlFalse)
  ELSE SqlNull

\* NOT x in SQL's three-valued logic
SqlNot(x) ==
  IF x = SqlNull THEN SqlNull ELSE IF x = SqlTrue THEN SqlFalse ELSE SqlTrue

\* IF cond THEN: the branch is taken only when cond is true
SqlIfTaken(cond) == cond = SqlTrue

\* UPDATE profiles SET is_admin = make_admin WHERE id = target_user_id
SetIsAdmin(target, make_admin) ==
  IF target \in DOMAIN profile_rows
  THEN [profile_rows EXCEPT ![target].is_admin = make_admin]
  ELSE profile_rows

\* UPDATE profiles SET is_super_admin = make_super_admin,
\*   is_admin = CASE WHEN make_super_admin THEN true ELSE is_admin END
\* WHERE id = target_user_id
SetIsSuperAdmin(target, make_super_admin) ==
  IF target \in DOMAIN profile_rows
  THEN [profile_rows EXCEPT
          ![target].is_super_admin = make_super_admin,
          ![target].is_admin = IF make_super_admin THEN TRUE
                               ELSE profile_rows[target].is_admin]
  ELSE profile_rows

ToggleCall(fn, uid, target, raised, rows) ==
  [ fn |-> fn, uid |-> uid, target |-> target, before |-> profile_rows,
    result |-> IF raised THEN T_Raised
               ELSE IF target \in DOMAIN rows THEN T_Found ELSE T_NotFound ]

toggle_admin_status(uid, target_user_id, make_admin) ==
  /\ IF SqlIfTaken(SqlNot(CallerIsSuperAdmin(uid)))
     THEN /\ toggle' = ToggleCall("toggle_admin_status", uid, target_user_id,
                                  TRUE, profile_rows)
          /\ UNCHANGED profile_rows
     ELSE /\ profile_rows' = SetIsAdmin(target_user_id, make_admin)
          /\ toggle' = ToggleCall("toggle_admin_status", uid, target_user_id,
                                  FALSE, profile_rows)
  /\ UNCHANGED createVars

toggle_super_admin_status(uid, target_user_id, make_super_admin) ==
  /\ IF SqlIfTaken(SqlNot(CallerIsSuperAdmin(uid)))
     THEN /\ toggle' = ToggleCall("toggle_super_admin_status", uid,
                                  target_user_id, TRUE, profile_rows)
          /\ UNCHANGED profile_rows
     ELSE /\ profile_rows' = SetIsSuperAdmin(target_user_id, make_super_admin)
          /\ toggle' = ToggleCall("toggle_super_admin_status", uid,
                                  target_user_id, FALSE, profile_rows)
  /\ UNCHANGED createVars

NextAdmin ==
  \E uid \in Users, target \in Users, make \in BOOLEAN :
    \/ toggle_admin_status(uid, target, make)
    \/ toggle_super_admin_status(uid, target, make)

SpecAdmin == InitAdmin /\ [][NextAdmin]_vars

\* C14: a call of toggle_admin_status or toggle_super_admin_status by a
\* caller whose own profile is not a super admin, or who has no profile row,
\* raises an error and leaves every profile as it was.
C14_OnlySuperAdminsToggle ==
  (toggle # NoToggle
     /\ ~( toggle.uid \in DOMAIN toggle.before
           /\ toggle.before[toggle.uid].is_super_admin ))
  => /\ toggle.result = T_Raised
     /\ profile_rows = toggle.before

\* ================================================== credits of one account
\* addStarCredits(userId, credits), called by ShopModal with
\* PRODUCTS.STAR_CREDITS.quantity after a captured payment.
STAR_CREDITS_quantity == 3

A_Done == "credits added"
A_Error == "addStarCredits threw the request's error"

\* const { data: existing } = await supabase.from('user_credits')
\*   .select('star_credits').eq('user_id', userId).maybeSingle()
AddRead(p, userId, amount) ==
  /\ path = "mixed"
  /\ CanStart(p)
  /\ p_user_id' = [p_user_id EXCEPT ![p] = userId]
  /\ credits' = [credits EXCEPT ![p] = amount]
  /\ hist' = [hist EXCEPT ![p] =
                [NewHist EXCEPT !.callCredits = user_credits,
                                !.callStars = Cardinality(stars),
                                !.creditRead = TRUE,
                                !.flow = "add"]]
  /\ IF HasRow(userId)
     THEN /\ existing' = [existing EXCEPT ![p] = user_credits[userId]]
          /\ pc' = [pc EXCEPT ![p] = "a_update"]
     ELSE /\ pc' = [pc EXCEPT ![p] = "a_insert"]
          /\ UNCHANGED existing
  /\ UNCHANGED << dbVars, fixedVars, p_star_name, p_is_super_admin, payload,
                  rpcLocals, result >>

\* if (existing) update({ star_credits: existing.star_credits + credits })
AddUpdate(p) ==
  /\ pc[p] = "a_update"
  /\ ~RowLockedByOther(p, p_user_id[p])
  /\ pc' = [pc EXCEPT ![p] = "done"]
  /\ IF CheckStarCredits(existing[p] + credits[p])
     THEN /\ user_credits' =
               SetRow(user_credits, p_user_id[p], existing[p] + credits[p])
          /\ result' = [result EXCEPT ![p] = A_Done]
          /\ hist' = Touch([hist EXCEPT ![p].creditWrite = TRUE], p)
     ELSE /\ result' = [result EXCEPT ![p] = A_Error]
          /\ UNCHANGED << user_credits, hist >>
  /\ UNCHANGED << stars, nextId, fixedVars, argVars, rpcLocals, clientLocals >>

\* else insert({ user_id: userId, star_credits: credits })
AddInsert(p) ==
  /\ pc[p] = "a_insert"
  /\ ~RowLockedByOther(p, p_user_id[p])
  /\ pc' = [pc EXCEPT ![p] = "done"]
  /\ IF ~HasRow(p_user_id[p]) /\ CheckStarCredits(credits[p])
     THEN /\ user_credits' = SetRow(user_credits, p_user_id[p], credits[p])
          /\ result' = [result EXCEPT ![p] = A_Done]
          /\ hist' = Touch([hist EXCEPT ![p].creditWrite = TRUE], p)
     ELSE /\ result' = [result EXCEPT ![p] = A_Error]
          /\ UNCHANGED << user_credits, hist >>
  /\ UNCHANGED << stars, nextId, fixedVars, argVars, rpcLocals, clientLocals >>

\* The three writers of star_credits working on the row of one non-exempt
\* account.
CreditsStep(p) ==
  \/ \E name \in NameChoices : Call(p, "alice", name, FALSE)
  \/ RpcSelectCredits(p)
  \/ RpcInsertCredits(p)
  \/ RpcUpdateCredits(p)
  \/ RpcInsertStar(p)
  \/ OpenModal(p, "alice")
  \/ \E name \in NameChoices : Submit(p, name)
  \/ DeductRead(p)
  \/ DeductWrite(p)
  \/ \E in \in CreateInputs : HandleCreateStar(p, in[1], in[2], in[3])
  \/ FetchCredits(p)
  \/ AddRead(p, "alice", STAR_CREDITS_quantity)
  \/ AddUpdate(p)
  \/ AddInsert(p)

InitCredits ==
  /\ InitCreate
  /\ path = "mixed"
  /\ DOMAIN user_credits \subseteq {"alice"}
  /\ AdminIdle
  /\ PlaceIdle
  /\ FrontIdle
NextCredits == \E p \in Procs : CreditsStep(p)
SpecCredits == InitCredits /\ [][NextCredits]_vars

\* C16: every user_credits row, committed or written by a transaction still
\* in progress, has star_credits >= 0.
C16_CreditsNeverNegative ==
  /\ \A u \in DOMAIN user_credits : user_credits[u] >= 0
  /\ \A p \in Procs : pend[p] # NoWrite => pend[p][1] >= 0

\* the stored procedure and the client flow each took a credit and the
\* balance is 0
C16_Witness ==
  \E p, q \in Procs :
    /\ hist[p].flow = "rpc" /\ hist[p].deducted
    /\ hist[q].flow = "client" /\ hist[q].deducted
    /\ user_credits["alice"] = 0

\* ===================================== App.handleCreateStar, step by step
minDistance == 5

\* Samples of x = Math.random() * 100 and y = Math.random() * 60 + 20: points
\* in each reserved corner, on both sides of their borders, in the free
\* middle and next to the stars of LocalStarLists.
SampleXs == {0, 24, 25, 48, 50, 75, 76, 99}
SampleYs == {20, 24, 25, 34, 35, 50, 53, 75, 76, 79}
Samples == { << sx, sy >> : sx \in SampleXs, sy \in SampleYs }

\* The stars state of the App when handleCreateStar runs.
LocalStarLists == { {}, { << 50, 50 >> }, { << 50, 50 >>, << 24, 20 >> } }

\* window.innerWidth
InnerWidths == {400, 1000}

\* const screenX = (x * window.innerWidth / 100) % window.innerWidth
screenX(cx, w) == ((cx * w) \div 100) % w

\* conflictsWithUI
conflictsWithUI(cx, cy, w) ==
  \/ (screenX(cx, w) * 100 > w * 75 /\ cy < 35)
  \/ (screenX(cx, w) * 100 < w * 25 /\ cy < 25)
  \/ (screenX(cx, w) * 100 > w * 75 /\ cy > 75)

\* A filter that never finds a star too close.
tooCloseToExistingStar_never(cx, cy, list) == FALSE

\* stars.some(existingStar => Math.sqrt((ex - x)^2 + (ey - y)^2) < minDistance)
tooCloseToExistingStar(cx, cy, list) ==
  \E existingStar \in list :
    (existingStar[1] - cx) * (existingStar[1] - cx)
      + (existingStar[2] - cy) * (existingStar[2] - cy)
    < minDistance * minDistance

\* if (!conflictsWithUI && !tooCloseToExistingStar) break
Accepted(cx, cy) ==
  /\ ~conflictsWithUI(cx, cy, innerWidth)
  /\ ~tooCloseToExistingStar(cx, cy, localStars)

\* A handler without the connection guard.
NotConnected_ignored(connected) == FALSE

\* if (!isConnected)
NotConnected(connected) == ~connected

InitPlace ==
  /\ InitCreate
  /\ user_credits = << >>
  /\ path = "client"
  /\ AdminIdle
  /\ FrontIdle
  /\ h_pc = "entry"
  /\ h_isConnected \in BOOLEAN
  /\ h_user \in {NoUser, "alice"}
  /\ innerWidth \in InnerWidths
  /\ localStars \in LocalStarLists
  /\ h_attempts = 0
  /\ h_x = NoCoord
  /\ h_y = NoCoord
  /\ sawAcceptable = FALSE
  /\ error = NoError
  /\ isModalOpen = TRUE
  /\ isAuthModalOpen = FALSE
  /\ thrown = NoThrow

placeInputs == << h_isConnected, h_user, innerWidth, localStars >>
placeRest == << user_credits, argVars, rpcLocals, clientLocals, pc, result,
                hist, profiles, credits0, path, adminVars, frontVars >>

\* if (!isConnected) {...}  if (!user) {...}
Guards ==
  /\ h_pc = "entry"
  /\ IF NotConnected(h_isConnected)
       THEN /\ error' = ErrConnect
            /\ thrown' = E_Connection
            /\ h_pc' = "thrown"
            /\ UNCHANGED << isModalOpen, isAuthModalOpen >>
     ELSE IF h_user = NoUser
       THEN /\ error' = ErrSignIn
            /\ isModalOpen' = FALSE
            /\ isAuthModalOpen' = TRUE
            /\ thrown' = E_Auth
            /\ h_pc' = "thrown"
     ELSE /\ h_pc' = "loop"
          /\ UNCHANGED << error, isModalOpen, isAuthModalOpen, thrown >>
  /\ UNCHANGED << stars, nextId, placeRest, placeInputs, h_attempts, h_x, h_y,
                  sawAcceptable >>

\* one pass of while (attempts < maxAttempts) { x = ...; y = ...; attempts++;
\* ... if (...) break; }
LoopIteration(sample) ==
  /\ h_pc = "loop"
  /\ h_attempts < maxAttempts
  /\ h_x' = sample[1]
  /\ h_y' = sample[2]
  /\ h_attempts' = h_attempts + 1
  /\ sawAcceptable' = Accepted(sample[1], sample[2])
  /\ h_pc' = IF Accepted(sample[1], sample[2]) THEN "after_loop" ELSE "loop"
  /\ UNCHANGED << stars, nextId, placeRest, placeInputs, error, isModalOpen,
                  isAuthModalOpen, thrown >>

\* the loop condition fails
LoopExit ==
  /\ h_pc = "loop"
  /\ ~(h_attempts < maxAttempts)
  /\ h_pc' = "after_loop"
  /\ UNCHANGED << stars, nextId, placeRest, placeInputs, h_attempts, h_x, h_y,
                  sawAcceptable, error, isModalOpen, isAuthModalOpen, thrown >>

\* if (attempts >= maxAttempts) throw ...; the insert of newStar; the catch
\* block. insertError is what the insert request returns.
AfterLoop(insertError) ==
  /\ h_pc = "after_loop"
  /\ IF h_attempts >= maxAttempts
       THEN /\ error' = ErrCreate
            /\ thrown' = E_Crowded
            /\ h_pc' = "thrown"
            /\ UNCHANGED << stars, nextId, isModalOpen >>
     ELSE IF insertError
       THEN /\ error' = ErrCreate
            /\ thrown' = E_CreateFailed
            /\ h_pc' = "thrown"
            /\ UNCHANGED << stars, nextId, isModalOpen >>
     ELSE /\ stars' = stars \cup
                 { StarRow(nextId, "Nova",
                           [message |-> "hello", x |-> h_x, y |-> h_y, size |-> 1,
                            brightness |-> 1, sky_type |-> "general"],
                           h_user) }
          /\ nextId' = nextId + 1
          /\ isModalOpen' = FALSE
          /\ error' = NoError
          /\ h_pc' = "returned"
          /\ UNCHANGED thrown
  /\ UNCHANGED << placeRest, placeInputs, h_attempts, h_x, h_y, sawAcceptable,
                  isAuthModalOpen >>

NextPlace ==
  \/ Guards
  \/ \E sample \in Samples : LoopIteration(sample)
  \/ LoopExit
  \/ \E insertError \in BOOLEAN : AfterLoop(insertError)

SpecPlace == InitPlace /\ [][NextPlace]_vars

\* C18: the placement search samples at most maxAttempts candidates; once it
\* is over, the call has thrown the 'too crowded' error exactly when no
\* sampled candidate was acceptable, and otherwise went on to the insert.
C18_CrowdedOnlyWithoutCandidate ==
  /\ h_attempts <= maxAttempts
  /\ h_pc \in {"thrown", "returned"} /\ thrown \notin {E_Connection, E_Auth}
       => /\ thrown = E_Crowded <=> ~sawAcceptable
          /\ sawAcceptable => (h_pc = "returned" \/ thrown = E_CreateFailed)

\* the filter of C19, on the coordinates themselves
InRange(cx, cy) == 0 <= cx /\ cx < 100 /\ 20 <= cy /\ cy < 80
InReservedRegion(cx, cy) ==
  \/ cx > 75 /\ cy < 35
  \/ cx < 25 /\ cy < 25
  \/ cx > 75 /\ cy > 75
FarFromLocalStars(cx, cy) ==
  \A s \in localStars :
    (s[1] - cx) * (s[1] - cx) + (s[2] - cy) * (s[2] - cy)
      >= minDistance * minDistance

\* C19: every star handleCreateStar inserted has coordinates in range, at
\* least minDistance away from every star of the local list and outside the
\* three reserved regions.
C19_InsertedCoordinatesAccepted ==
  \A s \in stars :
    /\ InRange(s.x, s.y)
    /\ FarFromLocalStars(s.x, s.y)
    /\ ~InReservedRegion(s.x, s.y)

\* a star placed on the 99th sample, next to nothing, with two stars known
C19_Witness ==
  /\ h_pc = "returned" /\ h_attempts = maxAttempts - 1
  /\ Cardinality(localStars) = 2 /\ stars # {}

\* C20: without a connection the call sets the connection error and throws
\* 'Database connection error'; without a user it closes the create modal,
\* opens the auth modal and throws 'Authentication required'; stars is
\* unchanged in both cases.
C20_GuardsBeforeInsert ==
  /\ (h_pc # "entry" /\ ~h_isConnected) =>
       /\ h_pc = "thrown" /\ thrown = E_Connection
       /\ error = ErrConnect
       /\ stars = {}
  /\ (h_pc # "entry" /\ h_isConnected /\ h_user = NoUser) =>
       /\ h_pc = "thrown" /\ thrown = E_Auth
       /\ error = ErrSignIn
       /\ ~isModalOpen /\ isAuthModalOpen
       /\ stars = {}
  /\ stars # {} => (h_isConnected /\ h_user # NoUser)

\* the call made without a connection and without a user
C20_Witness ==
  h_pc = "thrown" /\ ~h_isConnected /\ h_user = NoUser /\ thrown = E_Connection

\* every profile with is_super_admin = true has is_admin = true
SuperAdminsAreAdmins(rows) ==
  \A u \in DOMAIN rows : rows[u].is_super_admin => rows[u].is_admin

\* C27: a successful call of toggle_admin_status or toggle_super_admin_status
\* made in a state where every super admin is an admin leaves a state where
\* every super admin is an admin.
C27_RoleInvariantKept ==
  (toggle # NoToggle /\ toggle.result # T_Raised
     /\ SuperAdminsAreAdmins(toggle.before))
  => SuperAdminsAreAdmins(profile_rows)

\* calls of addStarCredits that wrote, and calls of deductStarCredit that
\* returned true, for the account of SpecCredits
AddsDone == Cardinality({p \in Procs : hist[p].flow = "add" /\ result[p] = A_Done})
DeductsTrue ==
  Cardinality({p \in Procs : hist[p].flow = "client" /\ hist[p].deducted})

\* C26: once the addStarCredits and deductStarCredit calls on an account have
\* ended (no call of the stored procedure taking part), star_credits is the
\* initial balance plus the credits added minus the number of deductions
\* that returned true.
C26_NoLostUpdate ==
  ( /\ Quiescent
    /\ \A p \in Procs : hist[p].flow \in {"none", "add", "client"}
    /\ "alice" \in DOMAIN credits0 )
  => user_credits["alice"]
       = credits0["alice"] + STAR_CREDITS_quantity * AddsDone - DeductsTrue


\* ------------------ checkSupabaseConnection and testNetworkConnectivity
sessionRetries == 3     \* checkSupabaseConnection = async (retries = 3)
networkRetries == 2     \* testNetworkConnectivity = async (retries = 2)
retryDelay == 1000      \* setTimeout(resolve, 1000 * attempt)

F_Session == "checkSupabaseConnection"
F_Network == "testNetworkConnectivity"

\* what an await of getSession() / fetch() can come back with: a value without
\* error (response.ok), a value carrying an error (!response.ok), an exception
ErrorClasses == {"cors", "timeout", "other"}
CheckOutcomes ==
  {[kind |-> "ok", err |-> "none"]}
    \cup [kind : {"error", "throw"}, err : ErrorClasses]

M_Cors == "CORS Configuration Required"
M_Timeout == "Connection Timeout"
M_Generic == "Database Connection Error"
M_Status == "Server responded with status"
NoMessage == "undefined"

getConnectionErrorMessage(err) ==
  IF err = "cors" THEN M_Cors
  ELSE IF err = "timeout" THEN M_Timeout
  ELSE M_Generic

\* the error text of the return inside the loop
FailureMessage(fn, o) ==
  IF fn = F_Network /\ o.kind = "error" THEN M_Status
  ELSE getConnectionErrorMessage(o.err)

Success == [success |-> TRUE, error |-> NoMessage]
Failure(msg) == [success |-> FALSE, error |-> msg]

\* await new Promise(resolve => setTimeout(resolve, 1000 * attempt))
WaitMs_flat(attempt) == retryDelay
WaitMs(attempt) == retryDelay * attempt

\* the values of `retries` callers pass; leaving the argument out passes the
\* default
DefaultRetries(fn) == IF fn = F_Session THEN sessionRetries ELSE networkRetries
RetryChoices == 0..MaxRetries

\* Entry of the helper with `retries` given: for (let attempt = 1;
\* attempt <= retries; ...), and the return after the loop when it has no turn.
EnterLoop(p, fn, retries) ==
  /\ k_fn' = [k_fn EXCEPT ![p] = fn]
  /\ k_retries' = [k_retries EXCEPT ![p] = retries]
  /\ k_attempt' = [k_attempt EXCEPT ![p] = 1]
  /\ k_checks' = [k_checks EXCEPT ![p] = 0]
  /\ k_failed' = [k_failed EXCEPT ![p] = 0]
  /\ k_waits' = [k_waits EXCEPT ![p] = << >>]
  /\ IF 1 <= retries
       THEN /\ k_pc' = [k_pc EXCEPT ![p] = "check"]
            /\ k_result' = [k_result EXCEPT ![p] = NoValue]
       ELSE /\ k_pc' = [k_pc EXCEPT ![p] = "ret"]
            /\ k_result' = [k_result EXCEPT ![p] = Failure(M_Generic)]

\* A caller calls one of the two helpers. The calls share no state, so a run
\* follows one call.
CallHelper(p, fn, retries) ==
  /\ \A q \in Procs : k_pc[q] = "off"
  /\ EnterLoop(p, fn, retries)
  /\ UNCHANGED << notConn, cacheVars >>

\* One turn of the loop up to its return or its setTimeout.
Check(p) ==
  /\ k_pc[p] = "check"
  /\ \E o \in CheckOutcomes :
       /\ k_checks' = [k_checks EXCEPT ![p] = @ + 1]
       /\ IF o.kind = "ok"
            THEN /\ k_result' = [k_result EXCEPT ![p] = Success]
                 /\ k_pc' = [k_pc EXCEPT ![p] = "ret"]
                 /\ UNCHANGED k_failed
            ELSE /\ k_failed' = [k_failed EXCEPT ![p] = @ + 1]
                 /\ IF k_attempt[p] < k_retries[p]
                      THEN /\ k_pc' = [k_pc EXCEPT ![p] = "wait"]
                           /\ UNCHANGED k_result
                      ELSE /\ k_pc' = [k_pc EXCEPT ![p] = "ret"]
                           /\ k_result' = [k_result EXCEPT ![p] =
                                Failure(FailureMessage(k_fn[p], o))]
  /\ UNCHANGED << k_fn, k_retries, k_attempt, k_waits >>

\* The timer fires: continue; attempt++.
Wait(p) ==
  /\ k_pc[p] = "wait"
  /\ k_waits' = [k_waits EXCEPT ![p] = Append(@, WaitMs(k_attempt[p]))]
  /\ k_attempt' = [k_attempt EXCEPT ![p] = @ + 1]
  /\ k_pc' = [k_pc EXCEPT ![p] = "check"]
  /\ UNCHANGED << k_fn, k_retries, k_checks, k_failed, k_result >>

InitRetry ==
  /\ StarIdle
  /\ RetryStart
  /\ CacheStart
  /\ DelayIdle
  /\ MusicIdle
  /\ ShopIdle

RetryStep(p) ==
  \/ \E fn \in {F_Session, F_Network}, retries \in RetryChoices :
       CallHelper(p, fn, retries)
  \/ Check(p) /\ UNCHANGED << notConn, cacheVars >>
  \/ Wait(p) /\ UNCHANGED << notConn, cacheVars >>

NextRetry == \E p \in Procs : RetryStep(p)

\* The awaited getSession() and fetch() settle and timers fire, so a call
\* that can take a step takes it.
SpecRetry == InitRetry /\ [][NextRetry]_vars /\ WF_vars(NextRetry)

RetryCalled(p) == k_fn[p] \in {F_Session, F_Network}
Returned(p) == k_pc[p] = "ret"

RetryRule(p) ==
  /\ k_checks[p] <= k_retries[p]
  /\ (Returned(p) /\ k_result[p].success)
       => (k_failed[p] = k_checks[p] - 1)
  /\ (Returned(p) /\ ~k_result[p].success)
       => (k_failed[p] = k_retries[p] /\ k_checks[p] = k_retries[p])
  /\ Len(k_waits[p]) = (IF Returned(p) /\ ~k_result[p].success /\ k_failed[p] > 0
                          THEN k_failed[p] - 1 ELSE k_failed[p]
                             - (IF k_pc[p] = "wait" THEN 1 ELSE 0))
  /\ \A k \in DOMAIN k_waits[p] : k_waits[p][k] = retryDelay * k

CACHE_DURATION == 30000

F_Cached == "checkSupabaseConnectionCached"

\* Time passes between two steps: just under and exactly one cache duration.
TickChoices == {CACHE_DURATION - 1, CACHE_DURATION}
Tick(d) ==
  /\ clock + d <= MaxTicks * CACHE_DURATION
  /\ clock' = clock + d
  /\ UNCHANGED << notConn, retryVars, connectionCache, k_now, cleared >>

\* connectionCache && (now - connectionCache.timestamp) < CACHE_DURATION
CacheUsable(cache, t) ==
  cache # NoCache /\ (t - cache.timestamp) < CACHE_DURATION

\* checkSupabaseConnectionCached up to its return of the cached value or to the
\* first await inside checkSupabaseConnection()
CachedCall(p) ==
  /\ k_pc[p] = "off"
  /\ cleared' = FALSE
  /\ k_now' = [k_now EXCEPT ![p] = clock]
  /\ IF CacheUsable(connectionCache, clock)
       THEN /\ k_fn' = [k_fn EXCEPT ![p] = F_Cached]
            /\ k_pc' = [k_pc EXCEPT ![p] = "done"]
            /\ k_result' = [k_result EXCEPT ![p] =
                 [success |-> connectionCache.success,
                  error |-> connectionCache.error]]
            /\ UNCHANGED << k_retries, k_attempt, k_checks, k_failed, k_waits >>
       ELSE EnterLoop(p, F_Cached, sessionRetries)
  /\ UNCHANGED << notConn, connectionCache, clock >>

\* checkSupabaseConnection() has returned: connectionCache = {...}; return
CachedStore(p) ==
  /\ k_fn[p] = F_Cached
  /\ k_pc[p] = "ret"
  /\ connectionCache' = [success |-> k_result[p].success,
                         error |-> k_result[p].error,
                         timestamp |-> k_now[p]]
  /\ k_pc' = [k_pc EXCEPT ![p] = "done"]
  /\ UNCHANGED << notConn, k_fn, k_retries, k_attempt, k_checks, k_failed,
                  k_waits, k_result, clock, k_now, cleared >>

clearConnectionCache ==
  /\ connectionCache' = NoCache
  /\ cleared' = TRUE
  /\ UNCHANGED << notConn, retryVars, clock, k_now >>

InitCache == InitRetry

CacheStep(p) ==
  \/ CachedCall(p)
  \/ Check(p) /\ UNCHANGED << notConn, cacheVars >>
  \/ Wait(p) /\ UNCHANGED << notConn, cacheVars >>
  \/ CachedStore(p)

NextCache ==
  \/ \E p \in Procs : CacheStep(p)
  \/ clearConnectionCache
  \/ \E d \in TickChoices : Tick(d)

SpecCache == InitCache /\ [][NextCache]_vars

\* a call of checkSupabaseConnectionCached begins
CachedCallBegins(p) == k_pc[p] = "off" /\ k_pc'[p] # "off"
RunsNewCheck(p) == k_pc'[p] = "check" /\ k_checks'[p] = 0
ReturnsCached(p) ==
  /\ k_pc'[p] = "done"
  /\ k_checks'[p] = 0
  /\ connectionCache # NoCache
  /\ k_result'[p] = [success |-> connectionCache.success,
                     error |-> connectionCache.error]

CachedRule(p) ==
  IF connectionCache = NoCache
       \/ clock - connectionCache.timestamp >= CACHE_DURATION
       \/ cleared
    THEN RunsNewCheck(p)
    ELSE ReturnsCached(p)

\* C22: a call of checkSupabaseConnectionCached runs a new check only when
\* nothing is cached or the cached result is 30000 ms old or older, and
\* otherwise returns the cached success and error without a check; the first
\* call after clearConnectionCache runs a new check.
C22_CacheRule ==
  [][\A p \in Procs : CachedCallBegins(p) => CachedRule(p)]_vars


\* ------------------------------------------- MusicPlayer.retryFetch: delay
MAX_RETRIES == 5
BASE_RETRY_DELAY == 5000
maxRetryDelay == 30000    \* Math.min(..., 30000)
jitterRange == 1000       \* Math.random() * 1000

RECURSIVE Pow2(_)
Pow2(n) == IF n = 0 THEN 1 ELSE 2 * Pow2(n - 1)

Min(a, b) == IF a <= b THEN a ELSE b

\* Math.min(BASE_RETRY_DELAY * Math.pow(2, retryCountRef.current)
\*          + Math.random() * 1000, 30000)
RetryDelay_uncapped(count, jitter) == BASE_RETRY_DELAY * Pow2(count) + jitter
RetryDelay(count, jitter) ==
  Min(BASE_RETRY_DELAY * Pow2(count) + jitter, maxRetryDelay)

\* values of Math.random() * 1000: 0 <= jitter < 1000
JitterSamples == {0, 1, 2, 250, 500, 750, jitterRange - 2, jitterRange - 1}

InitDelay ==
  /\ StarIdle
  /\ ConnIdle
  /\ MusicIdle
  /\ ShopIdle
  /\ d_pc = "input"
  /\ d_retryCount \in 0..MaxRetryCount
  /\ d_jitter \in JitterSamples
  /\ d_delay = 0

ComputeDelay ==
  /\ d_pc = "input"
  /\ d_delay' = RetryDelay(d_retryCount, d_jitter)
  /\ d_pc' = "output"
  /\ UNCHANGED << notDelay, d_retryCount, d_jitter >>

NextDelay == ComputeDelay
SpecDelay == InitDelay /\ [][NextDelay]_vars

\* C24: the retry delay is between 5000 and 30000 ms for retryCount in 0..4,
\* does not decrease when retryCount grows by one, whatever the two jitters,
\* and is exactly 30000 ms for retryCount >= 3.
C24_DelayBounds ==
  d_pc = "output" =>
    /\ d_retryCount \in 0..4
         => (d_delay >= 5000 /\ d_delay <= 30000)
    /\ \A j \in JitterSamples : d_delay <= RetryDelay(d_retryCount + 1, j)
    /\ d_retryCount >= 3 => d_delay = 30000

C24_Witness ==
  /\ d_pc = "output"
  /\ d_retryCount = 2
  /\ d_jitter = jitterRange - 1
  /\ d_delay = 20999


\* ------------------------------- MusicPlayer: fetchPlaylist and retryFetch
E_Unable == "Unable to connect to the server. Please check your connection."
E_NotConfigured == "Background music feature not yet configured"
E_CorsSettings == "Connection issue. Please check your Supabase CORS settings."
E_Retrying == "Unable to load music. Retrying..."
E_CorsRequired == "CORS configuration required. Please check your Supabase settings."
E_ConnRetrying == "Connection error. Retrying..."

\* what the select resolves to: rows, no rows, an error value with its code
\* (and, for other codes, whether its message mentions cors or fetch), or an
\* exception
SelectOutcomes ==
  {"data", "empty", "PGRST116", "42P01", "error-cors", "error-other",
   "throw-cors", "throw-other"}

\* the text set before retryFetch() is called
RetryingMessage(o) ==
  CASE o = "error-cors" -> E_CorsSettings
    [] o = "error-other" -> E_Retrying
    [] o = "throw-cors" -> E_CorsRequired
    [] o = "throw-other" -> E_ConnRetrying

\* if (retryCountRef.current >= MAX_RETRIES)
RetriesExhausted_never(count) == FALSE
RetriesExhausted(count) == count >= MAX_RETRIES

\* fetchPlaylist up to its first await: setFetchError(null) and the request
StartFetch ==
  /\ fetchError' = NoFetchError
  /\ inflight' = inflight + 1

\* retryFetch(), called with the text `shown` on screen
retryFetch(shown) ==
  IF RetriesExhausted(retryCount)
    THEN /\ fetchError' = E_Unable
         /\ retryTimeout' = NoTimer
    ELSE /\ fetchError' = shown
         /\ \E j \in JitterSamples : retryTimeout' = RetryDelay(retryCount, j)

\* The realtime subscription reports a change of background_music.
Notify ==
  /\ inflight + heads < MaxInflight
  /\ retryCount' = 0
  /\ StartFetch
  /\ m_event' = "notify"
  /\ UNCHANGED << notMusic, retryTimeout, playlist, heads >>

\* The upload and delete handlers call fetchPlaylist().
Refetch ==
  /\ inflight + heads < MaxInflight
  /\ StartFetch
  /\ m_event' = "refetch"
  /\ UNCHANGED << notMusic, retryCount, retryTimeout, playlist, heads >>

\* The timer set by retryFetch fires.
TimerFires ==
  /\ retryTimeout # NoTimer
  /\ retryTimeout' = NoTimer
  /\ retryCount' = retryCount + 1
  /\ StartFetch
  /\ m_event' = "retry"
  /\ UNCHANGED << notMusic, playlist, heads >>

\* The select of a fetchPlaylist call resolves; the call runs to its return or
\* to the HEAD request of the first track.
SelectReturns(o) ==
  /\ inflight > 0
  /\ inflight' = inflight - 1
  /\ m_event' = o
  /\ CASE o = "data" ->
            /\ heads' = heads + 1
            /\ UNCHANGED << retryCount, retryTimeout, fetchError, playlist >>
       [] o \in {"empty", "PGRST116"} ->
            /\ playlist' = "empty"
            /\ retryCount' = 0
            /\ UNCHANGED << retryTimeout, fetchError, heads >>
       [] o = "42P01" ->
            /\ playlist' = "empty"
            /\ fetchError' = E_NotConfigured
            /\ UNCHANGED << retryCount, retryTimeout, heads >>
       [] OTHER ->
            /\ retryFetch(RetryingMessage(o))
            /\ UNCHANGED << retryCount, playlist, heads >>
  /\ UNCHANGED notMusic

\* The HEAD requests of a call are over: some track is reachable, none is, or
\* reading a row threw.
HeadsReturn(o) ==
  /\ heads > 0
  /\ heads' = heads - 1
  /\ m_event' = o
  /\ IF o = "throw-other"
       THEN /\ retryFetch(RetryingMessage(o))
            /\ UNCHANGED << retryCount, playlist >>
       ELSE /\ playlist' = o
            /\ retryCount' = 0
            /\ UNCHANGED << retryTimeout, fetchError >>
  /\ UNCHANGED << notMusic, inflight >>

\* after the mount effect: subscribed, fetchPlaylist() called
InitMusic ==
  /\ StarIdle
  /\ ConnIdle
  /\ DelayIdle
  /\ ShopIdle
  /\ retryCount = 0
  /\ retryTimeout = NoTimer
  /\ fetchError = NoFetchError
  /\ playlist = "empty"
  /\ inflight = 1
  /\ heads = 0
  /\ m_event = "mount"

NextMusic ==
  \/ Notify
  \/ Refetch
  \/ TimerFires
  \/ \E o \in SelectOutcomes : SelectReturns(o)
  \/ \E o \in {"tracks", "empty", "throw-other"} : HeadsReturn(o)

SpecMusic == InitMusic /\ [][NextMusic]_vars

RetriedFailures == {"error-cors", "error-other", "throw-cors", "throw-other"}
Resets == {"tracks", "empty", "notify"}

BoundedRetryRule(failures) ==
  /\ retryCount <= MAX_RETRIES
  /\ (m_event \in failures /\ retryCount = MAX_RETRIES)
       => (retryTimeout = NoTimer /\ fetchError = E_Unable)
  /\ m_event \in Resets => retryCount = 0

\* C23: starting from counter 0, failing fetches schedule at most MAX_RETRIES
\* retry fetches; a fetch that fails with the counter at 5 schedules no retry
\* and sets fetchError to "Unable to connect to the server. ..."; a fetch that
\* succeeds, with or without tracks, and a realtime notification reset the
\* counter to 0.
C23_BoundedRetry == BoundedRetryRule(RetriedFailures \cup {"42P01"})

\* C23, amended: as above for a fetch that fails by an exception or by an
\* error other than 42P01; a fetch answered with error 42P01 schedules no
\* retry and sets fetchError to "Background music feature not yet configured".
C23_BoundedRetryAmended ==
  /\ BoundedRetryRule(RetriedFailures)
  /\ m_event = "42P01" => fetchError = E_NotConfigured

C23_Witness ==
  /\ m_event \in RetriedFailures
  /\ retryCount = MAX_RETRIES
  /\ fetchError = E_Unable


\* ----------------------------------- ShopModal: purchase of star credits
S_OrderFailed == "Failed to create order"
S_CreditsFailed == "Payment completed but failed to update credits. Contact support."
S_Purchased == "Successfully purchased 3 star credits!"

\* Row level security of table purchases: "Users can view own purchases" FOR
\* SELECT and "Users can create own purchases" FOR INSERT, both on
\* auth.uid() = user_id. A command without a policy sees no row.
PurchasesPolicy(cmd, uid, row_user_id) ==
  cmd \in {"SELECT", "INSERT"} /\ uid = row_user_id

\* createOrder: createPurchaseRecord(user.id, PRODUCTS.STAR_CREDITS)
CreatePurchaseRecord(p, requestOk) ==
  /\ s_pc[p] = "idle"
  /\ s_error' = [s_error EXCEPT ![p] = NoText]
  /\ IF requestOk /\ PurchasesPolicy("INSERT", AuthUid, AuthUid)
       THEN LET id == Cardinality(DOMAIN purchases) + 1 IN
            /\ purchases' = [i \in DOMAIN purchases \cup {id} |->
                 IF i = id
                   THEN [user_id |-> AuthUid,
                         quantity |-> STAR_CREDITS_quantity,
                         status |-> "pending"]
                   ELSE purchases[i]]
            /\ s_purchaseId' = [s_purchaseId EXCEPT ![p] = id]
            /\ s_pc' = [s_pc EXCEPT ![p] = "recorded"]
       ELSE /\ s_error' = [s_error EXCEPT ![p] = S_OrderFailed]
            /\ s_pc' = [s_pc EXCEPT ![p] = "aborted"]
            /\ UNCHANGED << purchases, s_purchaseId >>
  /\ UNCHANGED << notShop, s_success >>

\* createOrder: window.paypal.order.create({... custom_id: purchaseId})
CreateOrder(p, orderOk) ==
  /\ s_pc[p] = "recorded"
  /\ IF orderOk
       THEN /\ s_pc' = [s_pc EXCEPT ![p] = "ordered"]
            /\ UNCHANGED s_error
       ELSE /\ s_error' = [s_error EXCEPT ![p] = S_OrderFailed]
            /\ s_pc' = [s_pc EXCEPT ![p] = "aborted"]
  /\ UNCHANGED << notShop, purchases, s_purchaseId, s_success >>

\* onApprove: window.paypal.order.capture(data.orderID)
Capture(p, captureOk) ==
  /\ s_pc[p] = "ordered"
  /\ IF captureOk
       THEN /\ s_pc' = [s_pc EXCEPT ![p] = "captured"]
            /\ UNCHANGED s_error
       ELSE /\ s_error' = [s_error EXCEPT ![p] = S_CreditsFailed]
            /\ s_pc' = [s_pc EXCEPT ![p] = "failed"]
  /\ UNCHANGED << notShop, purchases, s_purchaseId, s_success >>

\* onApprove: updatePurchaseStatus(purchaseId, 'completed', ...): the UPDATE
\* changes the rows with the id that the policies let the session update and
\* reports no error when there is none.
UpdatePurchaseStatus(p, requestOk) ==
  /\ s_pc[p] = "captured"
  /\ IF requestOk
       THEN /\ purchases' = [i \in DOMAIN purchases |->
                 IF i = s_purchaseId[p]
                      /\ PurchasesPolicy("UPDATE", AuthUid, purchases[i].user_id)
                   THEN [purchases[i] EXCEPT !.status = "completed"]
                   ELSE purchases[i]]
            /\ s_pc' = [s_pc EXCEPT ![p] = "updated"]
            /\ UNCHANGED s_error
       ELSE /\ s_error' = [s_error EXCEPT ![p] = S_CreditsFailed]
            /\ s_pc' = [s_pc EXCEPT ![p] = "failed"]
            /\ UNCHANGED purchases
  /\ UNCHANGED << notShop, s_purchaseId, s_success >>

\* onApprove: addStarCredits(user.id, PRODUCTS.STAR_CREDITS.quantity) begins
GrantCredits(p) ==
  /\ s_pc[p] = "updated"
  /\ AddRead(p, AuthUid, STAR_CREDITS_quantity)

\* onApprove after addStarCredits: fetchCredits(); setSuccess(...), or the
\* catch block
FinishPurchase(p) ==
  /\ s_pc[p] = "updated"
  /\ pc[p] = "done"
  /\ IF result[p] = A_Done
       THEN /\ s_success' = [s_success EXCEPT ![p] = S_Purchased]
            /\ s_pc' = [s_pc EXCEPT ![p] = "success"]
            /\ UNCHANGED s_error
       ELSE /\ s_error' = [s_error EXCEPT ![p] = S_CreditsFailed]
            /\ s_pc' = [s_pc EXCEPT ![p] = "failed"]
            /\ UNCHANGED s_success
  /\ UNCHANGED << notShop, purchases, s_purchaseId >>

InitShop ==
  /\ InitCreate
  /\ path = "mixed"
  /\ DOMAIN user_credits \subseteq {AuthUid}
  /\ AdminIdle
  /\ PlaceIdle
  /\ ConnIdle
  /\ DelayIdle
  /\ MusicIdle
  /\ purchases = << >>
  /\ s_pc = [p \in Procs |-> "idle"]
  /\ s_purchaseId = [p \in Procs |-> NoPurchase]
  /\ s_error = [p \in Procs |-> NoText]
  /\ s_success = [p \in Procs |-> NoText]

ShopStep(p) ==
  \/ \E ok \in BOOLEAN : CreatePurchaseRecord(p, ok)
  \/ \E ok \in BOOLEAN : CreateOrder(p, ok)
  \/ \E ok \in BOOLEAN : Capture(p, ok)
  \/ \E ok \in BOOLEAN : UpdatePurchaseStatus(p, ok)
  \/ GrantCredits(p)
  \/ AddUpdate(p)
  \/ AddInsert(p)
  \/ FinishPurchase(p)

NextShop == \E p \in Procs : ShopStep(p)
SpecShop == InitShop /\ [][NextShop]_vars

\* addStarCredits of the purchase of p has been called
CreditsGranting(p) == hist[p].flow = "add"

\* C25: the purchase row is created with status 'pending'; addStarCredits runs
\* only after the purchase is recorded as completed; it adds quantity 3,
\* creating the row with 3 when it is absent; when the capture or the status
\* update failed, the buyer's purchase has written no star_credits.
C25_CreditsAfterCompleted ==
  \A p \in Procs :
    /\ s_pc[p] \in {"recorded", "ordered", "captured"}
         => purchases[s_purchaseId[p]].status = "pending"
    /\ CreditsGranting(p)
         => purchases[s_purchaseId[p]].status = "completed"
    /\ (CreditsGranting(p) /\ result[p] = A_Done)
         => /\ credits[p] = 3
            /\ AuthUid \in DOMAIN user_credits
            /\ (AuthUid \notin DOMAIN hist[p].callCredits
                  => user_credits[AuthUid] >= 3)
    /\ (s_pc[p] = "failed" /\ s_success[p] = NoText /\ ~CreditsGranting(p))
         => ~hist[p].creditWrite

====
